---- MODULE Spec2Model ----
(***************************************************************************)
(* HTTPSSocket (app/src/recoil/selectors.ts): a polling HTTP channel that  *)
(* exposes the event interface of a WebSocket.  The model follows the      *)
(* class member by member.  Time is abstracted: an armed interval timer    *)
(* may fire at any moment, a request in flight may complete at any moment, *)
(* and the server's answer is chosen when the request completes.  A step   *)
(* is one job of the event loop: a call by the caller, a timer callback,   *)
(* the then-handlers of a settled request, or a catch handler queued by a  *)
(* throw of execute.                                                       *)
(***************************************************************************)
EXTENDS Integers, Sequences, FiniteSets, TLC

\* WebSocket.readyState values
CONNECTING == 0
OPEN == 1
CLOSED == 3

\* openTimeout (the base retry interval) and the ceiling of the backoff
openTimeout == 2000
Ceiling == 5000

\* Bounds of the model
MaxPolls == 2
MaxSends == 1
MaxRelays == 2
MaxConnects == 1
Cap == 2

\* a batch is bounded by the relay requests it may put in flight
MaxBatch == MaxRelays

\* the count of consecutive failures saturates past the point where the
\* backoff has reached the ceiling
MaxFails == Cap + 1

\* The history variables are grouped by observer; a specification records
\* the history of one observer and leaves the others at their initial value.
Observers == {"run", "step", "batch", "handlers", "retry"}

\* The event kinds the class dispatches, and the handler functions a caller
\* registers.  A dispatch invokes every member of a kind's set alike, so one
\* handler identity shows whether a set is undefined, empty or inhabited.
Kinds == {"open", "message", "close"}
Handlers == {"h1"}

VARIABLES
    readyState,   \* this.readyState
    timeout,      \* this.timeout
    interval,     \* this.interval: handle of the timer armed last
    timers,       \* armed interval timers: records [id, period]
    events,       \* this.events: function from the registered kinds to handler sets
    polls,        \* pull requests in flight (gather's fetch)
    sends,        \* push requests in flight (send's fetch)
    pend,         \* positions of the latest batch whose relay request is in flight
    oldRelays,    \* relay requests of earlier batches still in flight
    catching,     \* catch handlers of gather queued by a throw of execute, not yet run
    ripe,         \* while a catch handler is queued: the requests in flight whose
                  \* then-handlers may still run before it, by kind
    connects,     \* calls of connect() after the constructor's
    obs,          \* the observer whose history is recorded
    batchLen,     \* batch: length of the batch execute handled last
    deliv,        \* batch: positions of that batch in order of delivery
    replyAt,      \* batch: messages of that batch delivered before the direct reply
                  \*        of the response that carried it, -1 without such a reply
    gone,         \* handlers: <<kind, handler>> removed since the latest poll was issued
    called,       \* handlers: <<kind, handler>> invoked by the step taken last
    okPolls,      \* run: polls processed, -1 once one of them was no clean success
    nOpen,        \* run: 'open' dispatches while okPolls >= 0
    phase,        \* run: "none", "up", "down", "recovered"
    wClose,       \* run: 'close' dispatches of the current outage
    wOpen,        \* run: 'open' dispatches of the current outage
    wFails,       \* run: failed polls of the current outage
    fails,        \* run: consecutive failed polls, -1 when not known
    tick,         \* retry: flips whenever the timer issues a pull request
    last,         \* step: the error the step taken last raised and, when execute or
                  \*       the catch handler re-armed the timer in it, the operation
                  \*       and the state and interval it found
    edge          \* step: the 'open'/'close' dispatch made last, "none" before the first

vars == <<readyState, timeout, interval, timers, events, polls, sends, pend,
          oldRelays, catching, ripe, connects, obs, batchLen, deliv, replyAt,
          gone, called, okPolls, nOpen, phase, wClose, wOpen, wFails, fails,
          tick, last, edge>>

Min(a, b) == IF a < b THEN a ELSE b

Sat(n) == Min(n, Cap)

RECURSIVE Pow2(_)
Pow2(k) == IF k = 0 THEN 1 ELSE 2 * Pow2(k - 1)

----------------------------------------------------------------------------
(* Timers: setInterval / clearInterval.  A handle is a number that names an *)
(* armed timer; only equality of handles matters, so a cleared handle's      *)
(* number may name a later timer.                                           *)

MaxId(tm) == IF tm = {} THEN 0 ELSE CHOOSE i \in {t.id : t \in tm} : \A t \in tm : t.id <= i

NewId(tm) == MaxId(tm) + 1

SetIntervalNoop(tm, period) == tm

SetInterval(tm, period) == tm \cup {[id |-> NewId(tm), period |-> period]}

ClearIntervalNoop(tm, id) == tm

ClearInterval(tm, id) == {t \in tm : t.id # id}

----------------------------------------------------------------------------
(* Responses of the server *)

NoResp == [net |-> "none", status |-> 0, body |-> "none", msgs |-> "absent",
           len |-> 0, type |-> FALSE]

NetError == [NoResp EXCEPT !.net = "error"]

\* The code never reads the status, so the model draws both statuses only
\* for the bodies where the status decides what the response means.  A body
\* is unparseable, the JSON null, or an object whose messages field is
\* absent, an array, or ("other") a truthy value that is no array.  In
\* gather an absent field and one that is no array behave alike (execute
\* raises at messages.forEach), so pull answers draw the absent one only; in
\* send an absent field skips execute and any other truthy value calls it.
PollResponses ==
    {NetError}
    \cup [net : {"ok"}, status : {200, 500}, body : {"unparseable"},
          msgs : {"absent"}, len : {0}, type : {FALSE}]
    \cup [net : {"ok"}, status : {200}, body : {"null"},
          msgs : {"absent"}, len : {0}, type : {FALSE}]
    \cup [net : {"ok"}, status : {200}, body : {"object"},
          msgs : {"absent"}, len : {0}, type : {FALSE}]
    \cup [net : {"ok"}, status : {200, 500}, body : {"object"},
          msgs : {"array"}, len : 0..MaxBatch, type : {FALSE}]

SendResponses ==
    {NetError}
    \cup [net : {"ok"}, status : {200}, body : {"unparseable", "null"},
          msgs : {"absent"}, len : {0}, type : {FALSE}]
    \cup [net : {"ok"}, status : {200}, body : {"object"},
          msgs : {"absent"}, len : {0}, type : BOOLEAN]
    \cup [net : {"ok"}, status : {200}, body : {"object"},
          msgs : {"array"}, len : 0..MaxBatch, type : BOOLEAN]
    \cup [net : {"ok"}, status : {200}, body : {"object"},
          msgs : {"other"}, len : {0}, type : BOOLEAN]

\* the arguments of a direct call of execute: an array, or undefined
ExecuteArgs ==
    {NoResp}
    \cup [net : {"none"}, status : {0}, body : {"none"},
          msgs : {"array"}, len : 0..MaxBatch, type : {FALSE}]

RelayResponses ==
    {NetError}
    \cup [net : {"ok"}, status : {200}, body : {"unparseable", "object"},
          msgs : {"absent"}, len : {0}, type : {FALSE}]

\* response.json() resolves
Parsed(r) == r.net = "ok" /\ r.body # "unparseable"

\* Classes of pull responses on which the interface (GET -> 2xx with a JSON
\* body { messages: [...] }) and the code agree: a success, and a failure of
\* the transport or of the parse.  Every other response is in neither class.
GoodPoll(r) == r.net = "ok" /\ r.status = 200 /\ r.body = "object" /\ r.msgs = "array"

FailedPoll(r) == r.net = "error" \/ r.body = "unparseable"

----------------------------------------------------------------------------
(* The handler table *)

\* this.events[eventType] is defined
Registered(k) == k \in DOMAIN events

\* one dispatch: the kind and the handlers the forEach invokes
Ev(k, hs) == [kind |-> k, hs |-> hs]

AddHandler(k, h) ==
    IF Registered(k) THEN [events EXCEPT ![k] = @ \cup {h}] ELSE events @@ (k :> {h})

RemoveHandlerNoop(hs, h) == hs

\* Set.prototype.delete
RemoveHandler(hs, h) == hs \ {h}

Count(fired, k) == Cardinality({i \in DOMAIN fired : fired[i].kind = k})

----------------------------------------------------------------------------
(* execute(messages) and the catch handler of gather(), as functions of the *)
(* fields they read and write.  A run is a record: the fields, the          *)
(* dispatches made so far, whether execute threw, whether the catch handler *)
(* ran, and the number of relay requests issued.                            *)

Start == [rs |-> readyState, to |-> timeout, iv |-> interval, tm |-> timers,
          fired |-> <<>>, threw |-> FALSE, caught |-> FALSE, issued |-> 0]

NeedsOpenAlways(rs) == TRUE

\* [WebSocket.CLOSED, WebSocket.CONNECTING].includes(this.readyState)
NeedsOpen(rs) == rs \in {CLOSED, CONNECTING}

KeepTimeout(t) == t

\* this.timeout = this.openTimeout
ResetTimeout(t) == openTimeout

\* execute: this.events.open.forEach raises a TypeError when no 'open' handler
\* was ever registered, before any field is written; messages.forEach raises
\* one when messages is no array, after readyState was set.
Execute(s, m) ==
    IF NeedsOpen(s.rs) /\ ~Registered("open")
    THEN [s EXCEPT !.threw = TRUE]
    ELSE LET cleared == ClearInterval(s.tm, s.iv)
             s1 == IF NeedsOpen(s.rs)
                   THEN [s EXCEPT !.fired = Append(@, Ev("open", events["open"])),
                                  !.to = ResetTimeout(s.to),
                                  !.tm = SetInterval(cleared, ResetTimeout(s.to)),
                                  !.iv = NewId(cleared)]
                   ELSE s
             s2 == [s1 EXCEPT !.rs = OPEN]
         IN  IF m.msgs = "array"
             THEN [s2 EXCEPT !.issued = m.len]
             ELSE [s2 EXCEPT !.threw = TRUE]

WasOpenAlways(rs) == TRUE

\* this.readyState === WebSocket.OPEN
WasOpen(rs) == rs = OPEN

BackoffUncapped(t) == t * 2

BackoffWrap(t) == IF t * 2 > Ceiling THEN openTimeout ELSE t * 2

\* Math.min(this.timeout * 2, 5000)
Backoff(t) == Min(t * 2, Ceiling)

\* the handlers the 'close' dispatch invokes: none when this.events.close is
\* undefined
CloseHandlers == IF Registered("close") THEN events["close"] ELSE {}

\* the catch handler of gather
Catch(s) ==
    LET cleared == ClearInterval(s.tm, s.iv)
        t2 == Backoff(s.to)
    IN  [s EXCEPT !.fired = IF WasOpen(s.rs)
                            THEN Append(@, Ev("close", CloseHandlers))
                            ELSE @,
                  !.rs = CLOSED,
                  !.tm = SetInterval(cleared, t2),
                  !.to = t2,
                  !.iv = NewId(cleared),
                  !.caught = TRUE]

\* the promise chain of gather: fetch, response.json(), the destructuring of
\* { messages }, execute, and the catch handler for a rejection of any of
\* them.  A rejection of fetch, of response.json() or of the destructuring
\* touches no field before the catch handler runs, so the catch handler is
\* the step.  A throw of execute only rejects the promise of its then: the
\* run ends with threw set and the catch handler is a later job (CatchJob).
\* Handlers are taken to return normally.
Gather(s, r) ==
    IF ~Parsed(r) \/ r.body = "null"
    THEN Catch(s)
    ELSE Execute(s, r)

\* the then-handler of send up to the call of execute: no catch handler
SendExecute(s, r) ==
    IF ~Parsed(r) \/ r.body = "null"
    THEN [s EXCEPT !.threw = TRUE]
    ELSE IF r.msgs = "absent" THEN s ELSE Execute(s, r)

\* type && this.events.message.forEach is reached
Replies(r) == ~SendExecute(Start, r).threw /\ r.type

\* the dispatches of the then-handler of send, in order
SendFired(r) ==
    IF Replies(r) /\ Registered("message")
    THEN Append(SendExecute(Start, r).fired, Ev("message", events["message"]))
    ELSE SendExecute(Start, r).fired

\* the chain of send has no catch handler: a rejection of fetch or of
\* response.json(), a throw of the destructuring, of execute or of
\* this.events.message.forEach is a rejected promise nothing handles
SendErr(r) ==
    IF SendExecute(Start, r).threw \/ (Replies(r) /\ ~Registered("message"))
    THEN "unhandled"
    ELSE "none"

\* the dispatch of the then-handler of a relay request
RelayFired(r) ==
    IF Parsed(r) /\ Registered("message")
    THEN <<Ev("message", events["message"])>>
    ELSE <<>>

\* the chain of a relay request has no catch handler either
RelayErr(r) == IF Parsed(r) /\ Registered("message") THEN "none" ELSE "unhandled"

InFlight == oldRelays + Cardinality(pend)

\* the batch fits the bound on relay requests in flight
Fits(r) == r.msgs = "array" => InFlight + r.len <= MaxRelays

\* a history variable of observer o takes its new value under that observer
Rec(o, new, old) == IF obs = o THEN new ELSE old

\* the fields a run leaves behind, and the relay requests it issued
Commit(s) ==
    /\ readyState' = s.rs
    /\ timeout' = s.to
    /\ interval' = s.iv
    /\ timers' = s.tm
    /\ IF s.issued > 0
       THEN /\ pend' = 1..s.issued
            /\ oldRelays' = InFlight
            /\ batchLen' = Rec("batch", s.issued, batchLen)
            /\ deliv' = <<>>
       ELSE UNCHANGED <<pend, oldRelays, batchLen, deliv>>

\* execute or the catch handler re-armed the timer in the run
Rearmed(s) == s.caught \/ Count(s.fired, "open") > 0

\* the record of a step: the error it raised ("TypeError": thrown by
\* removeEventListener or by execute, to the caller or into the rejection
\* the catch handler of gather receives; "unhandled": a rejected promise no
\* handler catches) and, when the step re-armed the timer, the operation
\* and the state and interval it found
NoStep(err) == [op |-> "none", rs0 |-> CONNECTING, to0 |-> 0, err |-> err]

Step(op, s, err) ==
    IF Rearmed(s)
    THEN [op |-> op, rs0 |-> readyState, to0 |-> timeout, err |-> err]
    ELSE NoStep(err)

IsEdge(d) == d.kind \in {"open", "close"}

\* the 'open' and 'close' dispatches among those of a step, in order
Edges(fired) == LET es == SelectSeq(fired, IsEdge) IN [i \in 1..Len(es) |-> es[i].kind]

LastEdge(e, fired) == IF Edges(fired) = <<>> THEN e ELSE Edges(fired)[Len(Edges(fired))]

Note(op, s, fired, err) ==
    /\ last' = Rec("step", Step(op, s, err), last)
    /\ edge' = Rec("step", LastEdge(edge, fired), edge)

\* a call that runs neither execute nor the catch handler
Call(err) == Note("call", Start, <<>>, err)

\* The job queue.  The catch handler queued by a throw of execute runs after
\* the jobs queued before it: the then-handlers of requests that had settled
\* already, which are requests issued before this turn of the event loop.
\* No timer callback runs before the queue is empty.
Turn == catching > 0

NoneRipe == [polls |-> 0, sends |-> 0, relays |-> 0]

\* the then-handlers of a request of kind k may run now
Ripe(k) == Turn => ripe[k] > 0

\* the queue after the then-handlers of a request of kind k have run; threw:
\* they queued a catch handler
Queue(k, threw) ==
    /\ catching' = IF threw THEN catching + 1 ELSE catching
    /\ ripe' = IF Turn
               THEN [ripe EXCEPT ![k] = @ - 1]
               ELSE IF threw
                    THEN [polls |-> polls', sends |-> sends', relays |-> InFlight]
                    ELSE ripe

queue == <<catching, ripe>>

----------------------------------------------------------------------------
(* The state after construction: the constructor calls connect(), which     *)
(* issues the first poll and arms the timer at this.timeout.                *)

Init ==
    /\ readyState = CONNECTING
    /\ timeout = openTimeout
    /\ interval = NewId({})
    /\ timers = SetInterval({}, openTimeout)
    /\ events = <<>>
    /\ polls = 1
    /\ sends = 0
    /\ pend = {}
    /\ oldRelays = 0
    /\ catching = 0
    /\ ripe = NoneRipe
    /\ connects = 0
    /\ obs \in Observers
    /\ batchLen = 0
    /\ deliv = <<>>
    /\ replyAt = -1
    /\ gone = {}
    /\ called = <<>>
    /\ okPolls = 0
    /\ nOpen = 0
    /\ phase = "none"
    /\ wClose = 0
    /\ wOpen = 0
    /\ wFails = 0
    /\ fails = 0
    /\ tick = FALSE
    /\ last = NoStep("none")
    /\ edge = "none"

channel == <<readyState, timeout, interval, timers>>
relays == <<pend, oldRelays, batchLen, deliv, replyAt>>
run == <<okPolls, nOpen, phase, wClose, wOpen, wFails, fails>>

\* addEventListener(eventType, handler)
Subscribe(k, h) ==
    /\ events' = AddHandler(k, h)
    /\ gone' = gone \ {<<k, h>>}
    /\ called' = <<>>
    /\ Call("none")
    /\ UNCHANGED <<channel, relays, run, polls, sends, tick, queue, connects, obs>>

\* removeEventListener(eventType, handler): this.events[eventType].delete
\* raises a TypeError when this.events[eventType] is undefined
Unsubscribe(k, h) ==
    /\ IF Registered(k)
       THEN /\ events' = [events EXCEPT ![k] = RemoveHandler(@, h)]
            /\ gone' = Rec("handlers",
                           IF h \in events[k] THEN gone \cup {<<k, h>>} ELSE gone,
                           gone)
            /\ Call("none")
       ELSE /\ UNCHANGED <<events, gone>>
            /\ Call("TypeError")
    /\ called' = <<>>
    /\ UNCHANGED <<channel, relays, run, polls, sends, tick, queue, connects, obs>>

\* an armed timer fires: () => this.gather() issues a pull request.  A timer
\* callback is a task of its own: it runs when no job is queued.
TimerFire ==
    /\ \E t \in timers : TRUE
    /\ ~Turn
    /\ polls < MaxPolls
    /\ polls' = polls + 1
    /\ gone' = {}
    /\ called' = <<>>
    /\ tick' = Rec("retry", ~tick, tick)
    /\ Call("none")
    /\ UNCHANGED <<channel, relays, run, events, sends, queue, connects, obs>>

\* connect() called by the caller: gather(), then a new timer at this.timeout
\* whose handle overwrites this.interval; the timer armed before is not
\* cleared
Connect ==
    /\ connects < MaxConnects
    /\ polls < MaxPolls
    /\ polls' = polls + 1
    /\ timers' = SetInterval(timers, timeout)
    /\ interval' = NewId(timers)
    /\ connects' = connects + 1
    /\ gone' = {}
    /\ called' = <<>>
    /\ Call("none")
    /\ UNCHANGED <<readyState, timeout, relays, run, events, sends, tick, queue, obs>>

\* gather() called by the caller issues a pull request
CallGather ==
    /\ polls < MaxPolls
    /\ polls' = polls + 1
    /\ gone' = {}
    /\ called' = <<>>
    /\ Call("none")
    /\ UNCHANGED <<channel, relays, run, events, sends, tick, queue, connects, obs>>

\* execute(messages) called by the caller: a throw reaches the caller
CallExecute(m) ==
    /\ Fits(m)
    /\ LET s == Execute(Start, m)
           opened == Count(s.fired, "open") > 0
       IN  /\ Commit(s)
           /\ nOpen' = Rec("run", IF okPolls >= 0 /\ opened THEN Sat(nOpen + 1) ELSE nOpen,
                           nOpen)
           /\ phase' = Rec("run", IF opened THEN "none" ELSE phase, phase)
           /\ wClose' = Rec("run", IF opened THEN 0 ELSE wClose, wClose)
           /\ wOpen' = Rec("run", IF opened THEN 0 ELSE wOpen, wOpen)
           /\ wFails' = Rec("run", IF opened THEN 0 ELSE wFails, wFails)
           /\ fails' = Rec("run", IF opened THEN 0 ELSE fails, fails)
           /\ called' = <<>>
           /\ replyAt' = IF s.issued > 0 THEN -1 ELSE replyAt
           /\ Note("execute", s, s.fired, IF s.threw THEN "TypeError" ELSE "none")
    /\ UNCHANGED <<events, polls, sends, gone, okPolls, tick, queue, connects, obs>>

\* send(message) issues a push request
Send ==
    /\ sends < MaxSends
    /\ sends' = sends + 1
    /\ called' = <<>>
    /\ Call("none")
    /\ UNCHANGED <<channel, relays, run, events, polls, gone, tick, queue, connects, obs>>

\* the response of a pull request is handled by the chain of gather; a throw
\* of execute queues the catch handler
PollComplete(r) ==
    /\ polls > 0
    /\ Ripe("polls")
    /\ Fits(r)
    /\ LET s == Gather(Start, r)
           good == GoodPoll(r)
           ok == good /\ ~s.caught /\ ~s.threw
           failed == FailedPoll(r)
           opens == Count(s.fired, "open")
           closes == Count(s.fired, "close")
           okPolls1 == IF okPolls >= 0 /\ ok THEN Sat(okPolls + 1) ELSE -1
           phase1 == CASE ok /\ phase = "down" -> "recovered"
                       [] ok /\ phase # "down" -> "up"
                       [] failed /\ phase # "none" -> "down"
                       [] OTHER -> "none"
           fresh == phase1 = "down" /\ phase # "down"
           reset == phase1 = "up" \/ phase1 = "none"
       IN  /\ polls' = polls - 1
           /\ Commit(s)
           /\ okPolls' = Rec("run", okPolls1, okPolls)
           /\ nOpen' = Rec("run", IF okPolls1 >= 0 THEN Sat(nOpen + opens) ELSE 0, nOpen)
           /\ phase' = Rec("run", phase1, phase)
           /\ wClose' = Rec("run", CASE reset -> 0
                                     [] fresh -> Sat(closes)
                                     [] OTHER -> Sat(wClose + closes), wClose)
           /\ wOpen' = Rec("run", CASE reset -> 0
                                    [] fresh -> Sat(opens)
                                    [] OTHER -> Sat(wOpen + opens), wOpen)
           /\ wFails' = Rec("run", CASE reset -> 0
                                     [] fresh -> 1
                                     [] failed -> Sat(wFails + 1)
                                     [] OTHER -> wFails, wFails)
           /\ fails' = Rec("run", CASE ok -> 0
                                    [] failed /\ fails >= 0 -> Min(fails + 1, MaxFails)
                                    [] OTHER -> -1, fails)
           /\ called' = Rec("handlers", s.fired, called)
           /\ replyAt' = IF s.issued > 0 THEN -1 ELSE replyAt
           /\ Note("poll", s, s.fired, IF s.threw THEN "TypeError" ELSE "none")
           /\ sends' = sends
           /\ Queue("polls", s.threw)
    /\ UNCHANGED <<events, gone, tick, connects, obs>>

\* the catch handler of gather, queued when execute threw, runs
CatchJob ==
    /\ Turn
    /\ LET s == Catch(Start)
       IN  /\ Commit(s)
           /\ called' = Rec("handlers", s.fired, called)
           /\ Note("catch", s, s.fired, "none")
    /\ catching' = catching - 1
    /\ ripe' = IF catching = 1 THEN NoneRipe ELSE ripe
    /\ okPolls' = Rec("run", -1, okPolls)
    /\ nOpen' = Rec("run", 0, nOpen)
    /\ phase' = Rec("run", "none", phase)
    /\ wClose' = Rec("run", 0, wClose)
    /\ wOpen' = Rec("run", 0, wOpen)
    /\ wFails' = Rec("run", 0, wFails)
    /\ fails' = Rec("run", -1, fails)
    /\ UNCHANGED <<events, polls, sends, gone, replyAt, tick, connects, obs>>

\* the response of a push request is handled by the then-handlers of send:
\* messages && this.execute(messages); type && this.events.message.forEach
SendComplete(r) ==
    /\ sends > 0
    /\ Ripe("sends")
    /\ Fits(r)
    /\ LET s == SendExecute(Start, r)
           fired == SendFired(r)
           opened == Count(s.fired, "open") > 0
       IN  /\ sends' = sends - 1
           /\ Commit(s)
           /\ nOpen' = Rec("run", IF okPolls >= 0 /\ opened THEN Sat(nOpen + 1) ELSE nOpen,
                           nOpen)
           /\ phase' = Rec("run", IF opened THEN "none" ELSE phase, phase)
           /\ wClose' = Rec("run", IF opened THEN 0 ELSE wClose, wClose)
           /\ wOpen' = Rec("run", IF opened THEN 0 ELSE wOpen, wOpen)
           /\ wFails' = Rec("run", IF opened THEN 0 ELSE wFails, wFails)
           /\ fails' = Rec("run", IF opened THEN 0 ELSE fails, fails)
           /\ called' = <<>>
           /\ replyAt' = IF s.issued > 0
                         THEN Rec("batch", IF Count(fired, "message") > 0 THEN Len(deliv') ELSE -1,
                                  replyAt)
                         ELSE replyAt
           /\ Note("reply", s, fired, SendErr(r))
           /\ polls' = polls
           /\ Queue("sends", FALSE)
    /\ UNCHANGED <<events, gone, okPolls, tick, connects, obs>>

\* the response of the relay request of one message of a batch: the handlers
\* of 'message' get the response's JSON; a failed or unparseable response, or
\* a missing 'message' table, rejects a promise nothing handles
RelayOutcome(r, i) ==
    /\ Note("relay", Start, RelayFired(r), RelayErr(r))
    /\ called' = Rec("handlers", RelayFired(r), called)
    /\ deliv' = Rec("batch", IF i > 0 /\ RelayFired(r) # <<>> THEN Append(deliv, i) ELSE deliv,
                    deliv)
    /\ Queue("relays", FALSE)
    /\ UNCHANGED <<channel, run, events, polls, sends, gone, batchLen, replyAt, tick,
                   connects, obs>>

\* While a catch handler is queued, the relay requests that may complete are
\* those issued before the turn: of ripe.relays such requests, the ones not
\* among the earlier batches belong to the latest batch.
RelayComplete(r) ==
    \/ \E i \in pend :
          /\ Turn => ripe.relays > oldRelays
          /\ pend' = pend \ {i}
          /\ oldRelays' = oldRelays
          /\ RelayOutcome(r, i)
    \/ /\ oldRelays > 0
       /\ Ripe("relays")
       /\ oldRelays' = oldRelays - 1
       /\ pend' = pend
       /\ RelayOutcome(r, 0)

Next ==
    \/ \E k \in Kinds, h \in Handlers : Subscribe(k, h)
    \/ \E k \in Kinds, h \in Handlers : Unsubscribe(k, h)
    \/ TimerFire
    \/ Connect
    \/ CallGather
    \/ \E m \in ExecuteArgs : CallExecute(m)
    \/ Send
    \/ \E r \in PollResponses : PollComplete(r)
    \/ CatchJob
    \/ \E r \in SendResponses : SendComplete(r)
    \/ \E r \in RelayResponses : RelayComplete(r)

Spec == Init /\ [][Next]_vars

\* one specification per observer
InitRun == Init /\ obs = "run"
InitStep == Init /\ obs = "step"
InitBatch == Init /\ obs = "batch"
InitHandlers == Init /\ obs = "handlers"
InitRetry == Init /\ obs = "retry"

SpecRun == InitRun /\ [][Next]_vars
SpecStep == InitStep /\ [][Next]_vars
SpecBatch == InitBatch /\ [][Next]_vars
SpecHandlers == InitHandlers /\ [][Next]_vars

\* An armed interval timer keeps firing: the callback of setInterval runs
\* again and again, whenever the job queue is empty, for as long as the
\* timer is not cleared; and a queued catch handler is run.
SpecRetry == InitRetry /\ [][Next]_vars /\ SF_vars(TimerFire) /\ WF_vars(CatchJob)

----------------------------------------------------------------------------
(* Claims *)

Opened(l) == Count(l.fired, "open") > 0
Closed(l) == Count(l.fired, "close") > 0

\* C1 (SpecRun): while every poll processed so far was a success, 'open' has
\* been dispatched at most once in total, however many polls completed and in
\* whatever order, and it has been dispatched exactly once precisely when the
\* channel is OPEN: the dispatch belongs to the completion that moved the
\* channel out of CONNECTING/CLOSED, and no later successful poll repeats it.
OpenFiresOnce ==
    okPolls >= 0 => nOpen <= 1 /\ (readyState = OPEN <=> nOpen = 1)

OpenFiresOnceWitness == okPolls = Cap /\ nOpen = 1 /\ readyState = OPEN

\* C2 (SpecRun): from an OPEN channel whose last poll succeeded, through an
\* outage of any number of failed polls, 'close' is dispatched exactly once
\* (by the first failure) and 'open' not at all; the successful poll that ends
\* the outage dispatches 'open' exactly once.
OutageOneCloseOneOpen ==
    /\ phase = "down" => wFails >= 1 /\ wClose = 1 /\ wOpen = 0 /\ readyState = CLOSED
    /\ phase = "recovered" => wFails >= 1 /\ wClose = 1 /\ wOpen = 1 /\ readyState = OPEN

OutageWitness == phase = "recovered" /\ wFails = Cap /\ wClose = 1 /\ wOpen = 1

\* The kind of a completion step, by the request it takes out of flight: a
\* pull request, a push request or a relay request
PollStep == polls' = polls - 1
SendStep == sends' = sends - 1
RelayStep == InFlight' = InFlight - 1

\* the timer this.interval names
Armed(period) == [id |-> interval, period |-> period]

\* C3 (SpecRun): the timer is first armed at the base interval; after the
\* k-th consecutive failed poll the retry interval and the period of the
\* timer armed last are min(2^k * base, ceiling), and no other timer is
\* armed unless the caller has called connect() again; the interval always
\* lies between the base and the ceiling.
BackoffSequence ==
    /\ openTimeout <= timeout /\ timeout <= Ceiling
    /\ fails >= 0 =>
          /\ timeout = Min(Pow2(fails) * openTimeout, Ceiling)
          /\ Armed(timeout) \in timers
          /\ connects = 0 => timers = {Armed(timeout)}

BackoffWitness == fails = MaxFails /\ timeout = Ceiling

\* C4 (SpecStep): a step in which execute handles a poll's answer to its
\* end leaves the retry interval and the period of the timer armed last at
\* the base interval, whatever the interval was before, and no other timer
\* armed unless the caller has called connect() again.
SuccessResetsInterval ==
    [][PollStep =>
          \A r \in PollResponses :
             (PollComplete(r) /\ ~Gather(Start, r).caught /\ ~Gather(Start, r).threw) =>
                 /\ timeout' = openTimeout
                 /\ Armed(openTimeout)' \in timers'
                 /\ connects = 0 => timers' = {Armed(openTimeout)'}]_vars

SuccessResetsWitness ==
    /\ last.op = "poll" /\ last.err = "none"
    /\ last.to0 = Ceiling /\ timeout = openTimeout /\ readyState = OPEN
    /\ connects = 0

\* C5 (SpecStep): at most one timer is armed, and it is the one this.interval
\* names, after any interleaving of poll and send completions (and of the
\* catch handlers they queue, of subscriptions, and of direct calls of
\* gather and execute), as long as the caller has not called connect()
\* again.
AtMostOneTimer ==
    connects = 0 =>
        /\ Cardinality(timers) <= 1
        /\ \A t \in timers : t.id = interval

AtMostOneTimerWitness ==
    /\ last.op = "catch" /\ last.to0 = Ceiling
    /\ connects = 0
    /\ timers = {[id |-> interval, period |-> Ceiling]}

\* C6 (SpecBatch): once the k messages of a batch have all been delivered to
\* the 'message' handlers, they were delivered in the order of the batch.
BatchDeliveredInOrder ==
    (batchLen > 0 /\ Len(deliv) = batchLen) => deliv = [i \in 1..batchLen |-> i]

\* C7 (SpecHandlers): a handler unsubscribed since the latest poll request was
\* issued, and not subscribed again, is invoked by no dispatch of the poll's
\* completion ('open', 'close') nor of a relay's completion ('message').
NoCallAfterUnsubscribe ==
    \A i \in DOMAIN called : \A h \in called[i].hs : <<called[i].kind, h>> \notin gone

NoCallAfterUnsubscribeWitness ==
    /\ called # <<>>
    /\ called[1].kind = "open"
    /\ <<"open", "h1">> \in gone

\* C8 (SpecStep): removeEventListener(kind, handler) raises no error, removes
\* exactly that handler from that kind's set when the kind has a set, and
\* changes nothing else; with no set for the kind it changes nothing.
UnsubscribeExactAndSilent ==
    [][\A k \in Kinds, h \in Handlers :
          Unsubscribe(k, h) =>
              /\ last'.err = "none"
              /\ events' = IF Registered(k)
                           THEN [events EXCEPT ![k] = @ \ {h}]
                           ELSE events]_vars

\* C9 (SpecStep): a poll answered with a non-2xx status, or with a body that
\* is no JSON, is handled as a failure: no 'open', no relay of messages,
\* 'close' if the channel was OPEN, then CLOSED and backed off.
NonOkPollIsFailure ==
    [][PollStep =>
          \A r \in PollResponses :
             (PollComplete(r) /\ (r.status = 500 \/ ~Parsed(r))) =>
                 /\ ~Opened(Gather(Start, r))
                 /\ Gather(Start, r).issued = 0
                 /\ readyState = OPEN => Closed(Gather(Start, r))
                 /\ readyState' = CLOSED
                 /\ timeout' = Min(timeout * 2, Ceiling)]_vars

\* a step in which execute runs and dispatches 'open'
PollOpens == \E r \in PollResponses : PollComplete(r) /\ Opened(Gather(Start, r))
SendOpens == \E r \in SendResponses : SendComplete(r) /\ Opened(SendExecute(Start, r))
CallOpens == \E m \in ExecuteArgs : CallExecute(m) /\ Opened(Execute(Start, m))

\* a step in which the catch handler of gather runs
Catches == CatchJob \/ \E r \in PollResponses : PollComplete(r) /\ Gather(Start, r).caught

\* C10 (SpecStep), as claimed: only a poll completion that moves the channel
\* from CONNECTING/CLOSED into OPEN lowers the retry interval.
OnlyPollOpeningLowersInterval ==
    [][timeout' < timeout =>
          /\ \E r \in PollResponses : PollComplete(r)
          /\ readyState \in {CONNECTING, CLOSED}
          /\ readyState' = OPEN]_vars

\* C10 (SpecStep), as amended: the retry interval is lowered only by a step
\* in which execute, run for a poll completion, for a send completion or by
\* a direct call, finds the channel CONNECTING/CLOSED, dispatches 'open' and
\* resets the interval; a step in which the catch handler of gather runs
\* never decreases it.
OnlyOpeningLowersInterval ==
    [][timeout' < timeout =>
          /\ PollOpens \/ SendOpens \/ CallOpens
          /\ readyState \in {CONNECTING, CLOSED}
          /\ ~Catches]_vars

OnlyOpeningLowersWitness ==
    /\ last.op = "reply" /\ last.rs0 = CLOSED
    /\ last.to0 = Ceiling /\ timeout = openTimeout

Delivered(fired) == Count(fired, "message") > 0

\* C11 (SpecStep): no 'message' handler is invoked by a step that finds the
\* channel CLOSED and leaves it CLOSED: neither by the completion of a relay
\* request still in flight nor by the direct reply to a send.
NoMessageWhileClosed ==
    [][(readyState = CLOSED /\ readyState' = CLOSED) =>
          /\ \A r \in RelayResponses : RelayComplete(r) => ~Delivered(RelayFired(r))
          /\ \A r \in SendResponses : SendComplete(r) => ~Delivered(SendFired(r))]_vars

\* a step raises no error, and when it finds the channel OPEN its dispatches
\* hold one 'close' and it leaves the channel CLOSED and the interval
\* doubled up to the ceiling
SilentClose(fired) ==
    /\ last'.err = "none"
    /\ readyState = OPEN =>
          /\ Count(fired, "close") = 1
          /\ readyState' = CLOSED
          /\ timeout' = Min(timeout * 2, Ceiling)

\* C12 (SpecStep): a transport failure of a poll, of a push request or of a
\* relay request raises no error, and when it is observed while the channel
\* is OPEN it dispatches 'close' once, leaves the channel CLOSED and doubles
\* the interval up to the ceiling.
TransportFailureIsClose ==
    [][/\ (PollStep /\ PollComplete(NetError)) => SilentClose(Gather(Start, NetError).fired)
       /\ (SendStep /\ SendComplete(NetError)) => SilentClose(SendFired(NetError))
       /\ (RelayStep /\ RelayComplete(NetError)) => SilentClose(RelayFired(NetError))]_vars

\* C13 (SpecStep): a poll answered with a 2xx batch and processed while the
\* channel is CONNECTING or CLOSED leaves the channel OPEN, the interval at
\* the base value and the timer armed at the base interval, whatever
\* handlers are registered.
ValidBatchOpens ==
    [][(PollStep /\ readyState \in {CONNECTING, CLOSED}) =>
          \A r \in PollResponses :
             (PollComplete(r) /\ GoodPoll(r)) =>
                 /\ readyState' = OPEN
                 /\ timeout' = openTimeout
                 /\ timers' = {Armed(openTimeout)'}]_vars

\* dispatches continue the alternation of 'open' and 'close' from the
\* dispatch made last; when their first is 'close' the channel is OPEN, when
\* it is 'open' the channel is CONNECTING or CLOSED
Alternates(fired) ==
    LET es == <<edge>> \o Edges(fired)
    IN  /\ \A i \in 1..(Len(es) - 1) :
              es[i + 1] = IF es[i] = "open" THEN "close" ELSE "open"
        /\ Len(es) > 1 =>
              /\ es[2] = "close" => readyState = OPEN
              /\ es[2] = "open" => readyState \in {CONNECTING, CLOSED}

\* C15 (SpecStep): in every interleaving of poll and send completions the
\* 'open' and 'close' dispatches alternate, starting with 'open': in every
\* reachable state the channel is OPEN exactly when the dispatch made last
\* is 'open', and whichever of the chain of gather, the then-handler of
\* send, execute and the catch handler runs next, on whatever response, its
\* dispatches continue the alternation from the dispatch made last.
OpenCloseAlternate ==
    /\ edge = "open" <=> readyState = OPEN
    /\ \A r \in PollResponses : Alternates(Gather(Start, r).fired)
    /\ \A r \in SendResponses : Alternates(SendFired(r))
    /\ \A m \in ExecuteArgs : Alternates(Execute(Start, m).fired)
    /\ Alternates(Catch(Start).fired)

OpenCloseAlternateWitness ==
    /\ last.op = "poll" /\ last.rs0 = OPEN /\ last.to0 = openTimeout
    /\ edge = "close" /\ readyState = CLOSED
    /\ polls = 1 /\ sends = 1

\* C16 (SpecRetry): in every reachable state the timer armed last is armed,
\* at the current retry interval, so no state ends the polling; and with the
\* timer firing fairly, the timer eventually issues another pull request
\* unless the bound on the pull requests in flight is reached first, after
\* any successes and failures.
RetriesForever ==
    /\ [](Armed(timeout) \in timers)
    /\ tick ~> (~tick \/ polls = MaxPolls)
    /\ ~tick ~> (tick \/ polls = MaxPolls)

RetriesForeverWitness ==
    /\ readyState = CLOSED /\ timeout = Ceiling
    /\ timers = {[id |-> interval, period |-> Ceiling]}
    /\ polls = MaxPolls

\* C14 (SpecBatch): when the response to a send carried a batch and a type
\* field, at least one message of the batch had been delivered to the
\* 'message' handlers when the direct reply was delivered to them.
ReplyNotAheadOfBatch == replyAt >= 0 => replyAt >= 1

====
